---- MODULE Spec2Model ----
(***************************************************************************)
(* Model of pilot/pkg/serviceregistry/kube/client.go: ResolveConfig,       *)
(* CreateInterface, CreateInterfaceFromClusterConfig and createInterface.  *)
(* Every call runs in its own frame (the locals of one invocation); the    *)
(* process environment, the filesystem, the in-cluster identity and the    *)
(* caller-held cluster configurations are shared and only read.  A frame   *)
(* advances one collaborator interaction at a time, so calls from several  *)
(* call sites interleave at every system or library call.                  *)
(***************************************************************************)
EXTENDS Integers, Sequences, FiniteSets, TLC

\* ------------------------------------------------------------------ bounds
\* Calls started in one behaviour with a single call site.
MaxCalls == 2
\* Calls started in one behaviour with several concurrent call sites.
MaxConcCalls == 3

\* --------------------------------------------------------------- universes
Procs == {1, 2, 3}

PathA == "/a/cfg"
PathB == "/b/cfg"
HomeU == "/home/u"
KubeDir == "/.kube/config"

\* Files the filesystem may hold something at (the default path is HomeU \o KubeDir).
FilePaths == {PathA, PathB, HomeU \o KubeDir}
\* Explicit kubeconfig arguments callers pass.
ExplicitPaths == {"", PathA, PathB}
\* Values of the KUBECONFIG environment variable ("" is unset or empty).
EnvValues == {"", PathA, PathB}

\* What a path can hold.  errno "" means stat succeeds; content is what
\* clientcmd.LoadFromFile finds in it.
NotExist == [errno |-> "ENOENT", size |-> 0, content |-> "none"]
NoAccess == [errno |-> "EACCES", size |-> 0, content |-> "none"]
EmptyFile == [errno |-> "", size |-> 0, content |-> "none"]
Garbage == [errno |-> "", size |-> 7, content |-> "garbage"]
NoContextFile == [errno |-> "", size |-> 7, content |-> "nocontext"]
BadServerFile == [errno |-> "", size |-> 7, content |-> "badserver"]
GoodFile == [errno |-> "", size |-> 7, content |-> "good"]
FileKinds == {NotExist, NoAccess, EmptyFile, Garbage, NoContextFile, BadServerFile, GoodFile}

\* Caller-held *clientcmdapi.Config values, by name, and what they contain.
ConfigIds == {"cfgGood", "cfgNoContext", "cfgBadServer"}
InitConfigs == [c \in ConfigIds |->
                  IF c = "cfgGood" THEN "good"
                  ELSE IF c = "cfgNoContext" THEN "nocontext" ELSE "badserver"]

\* In-cluster identity material: complete, absent, or present with a host
\* the client constructor rejects.
InClusterKinds == {"ok", "absent", "badserver"}

\* ------------------------------------------------------------------ errors
NilErr == [type |-> "nil", text |-> "", path |-> "", errors |-> <<>>]
Leaf(type, text, path) == [type |-> type, text |-> text, path |-> path, errors |-> <<>>]

\* e carries c: it is c, or c is one of the errors it wraps.
Contains(e, c) == e = c \/ \E i \in DOMAIN e.errors : e.errors[i] = c
\* e names path p, directly or in one of the errors it wraps.
Mentions(e, p) == e.path = p \/ \E i \in DOMAIN e.errors : e.errors[i].path = p

\* ------------------------------------------------------------------- state
VARIABLES
  env,        \* value of the KUBECONFIG environment variable
  usr,        \* what user.Current() yields: [err, HomeDir]
  fs,         \* the filesystem: FilePaths -> FileKinds
  inCluster,  \* the in-cluster identity material
  configs,    \* the caller-held cluster configurations: ConfigIds -> content
  frame,      \* one invocation's locals and results per call site
  heap,       \* number of objects allocated so far (addresses are 1..heap)
  started,    \* calls started so far
  sites,      \* the call sites of this run
  budget      \* calls this run may start

vars == <<env, usr, fs, inCluster, configs, frame, heap, started, sites, budget>>

world == <<env, usr, fs, inCluster, configs>>

NilRest == [addr |-> 0, server |-> ""]
NilClient == 0

\* A call site with no call in progress and no result held.
Idle == [pc |-> "idle", op |-> "none", arg |-> "", kubeconfig |-> "",
         path |-> "", loaded |-> "", rest |-> NilRest, client |-> NilClient,
         err |-> NilErr, cause |-> NilErr, calls |-> <<>>, alone |-> FALSE]

InProgress(f) == f.pc \notin {"idle", "done"}

\* ------------------------------------------------------------ collaborators
\* os.Getenv("KUBECONFIG")
Getenv == env

\* user.Current()
UserCurrent == usr

\* os.Stat(name): no file is ever found at the empty name.
Stat(name) ==
  IF name \notin DOMAIN fs
    THEN [size |-> 0, err |-> Leaf("PathError", "ENOENT", name)]
    ELSE IF fs[name].errno # ""
      THEN [size |-> 0, err |-> Leaf("PathError", fs[name].errno, name)]
      ELSE [size |-> fs[name].size, err |-> NilErr]

\* os.IsNotExist(err)
IsNotExist(err) == err.type = "PathError" /\ err.text = "ENOENT"

\* rest.InClusterConfig(): a fresh *rest.Config at address h + 1, or an error.
InClusterConfig(h) ==
  IF inCluster = "absent"
    THEN [rest |-> NilRest, err |-> Leaf("ErrNotInCluster", "", "")]
    ELSE [rest |-> [addr |-> h + 1, server |-> inCluster], err |-> NilErr]

\* clientcmd.LoadFromFile(path): the parsed configuration, or an error.
LoadFromFile(path) ==
  IF path \notin DOMAIN fs \/ fs[path].errno # "" \/ fs[path].content \in {"none", "garbage"}
    THEN [config |-> "", err |-> Leaf("LoadError", "", path)]
    ELSE [config |-> fs[path].content, err |-> NilErr]

\* clientcmd.NewDefaultClientConfig(config, &ConfigOverrides{}).ClientConfig():
\* a fresh *rest.Config at address h + 1, or an error.
ClientConfig(config, h) ==
  IF config = "nocontext"
    THEN [rest |-> NilRest, err |-> Leaf("ErrNoContext", "", "")]
    ELSE [rest |-> [addr |-> h + 1, server |-> IF config = "good" THEN "ok" ELSE "badserver"],
          err |-> NilErr]

\* kubernetes.NewForConfig(rest): a fresh *Clientset at address h + 1, or an error.
NewForConfig(rest, h) ==
  IF rest.server = "ok"
    THEN [client |-> h + 1, err |-> NilErr]
    ELSE [client |-> NilClient, err |-> Leaf("ErrBadServer", "", "")]

\* ----------------------------------------------------------- ResolveConfig
Call(name, arg) == <<name, arg>>

\* Variant: the environment variable is read first and overrides the argument.
resolveEnvFirst(kubeconfig) ==
  IF Getenv # ""
    THEN [kubeconfig |-> Getenv, calls |-> <<Call("Getenv", "KUBECONFIG")>>]
    ELSE [kubeconfig |-> kubeconfig, calls |-> <<Call("Getenv", "KUBECONFIG")>>]

\* if kubeconfig == "" { kubeconfig = os.Getenv("KUBECONFIG") }
resolveEnv(kubeconfig) ==
  IF kubeconfig = ""
    THEN [kubeconfig |-> Getenv, calls |-> <<Call("Getenv", "KUBECONFIG")>>]
    ELSE [kubeconfig |-> kubeconfig, calls |-> <<>>]

\* Variant: the guarding stat probes the default path and the default is adopted
\* only when a file is found there.
resolveHomeProbed(kubeconfig) ==
  IF kubeconfig = ""
    THEN LET u == UserCurrent IN
         IF ~u.err
           THEN LET defaultCfg == u.HomeDir \o KubeDir
                    st == Stat(defaultCfg)
                IN  [kubeconfig |-> IF st.err = NilErr THEN defaultCfg ELSE kubeconfig,
                     calls |-> <<Call("user.Current", ""), Call("Stat", defaultCfg)>>]
           ELSE [kubeconfig |-> kubeconfig, calls |-> <<Call("user.Current", "")>>]
    ELSE [kubeconfig |-> kubeconfig, calls |-> <<>>]

\* if kubeconfig == "" { usr, err := user.Current(); if err == nil {
\*   defaultCfg := usr.HomeDir + "/.kube/config"
\*   _, err := os.Stat(kubeconfig); if err != nil { kubeconfig = defaultCfg } } }
resolveHome(kubeconfig) ==
  IF kubeconfig = ""
    THEN LET u == UserCurrent IN
         IF ~u.err
           THEN LET defaultCfg == u.HomeDir \o KubeDir
                    st == Stat(kubeconfig)
                IN  [kubeconfig |-> IF st.err # NilErr THEN defaultCfg ELSE kubeconfig,
                     calls |-> <<Call("user.Current", ""), Call("Stat", kubeconfig)>>]
           ELSE [kubeconfig |-> kubeconfig, calls |-> <<Call("user.Current", "")>>]
    ELSE [kubeconfig |-> kubeconfig, calls |-> <<>>]

\* fmt.Errorf("kubernetes configuration file %q does not exist", kubeconfig)
notExistError(kubeconfig) == Leaf("errorString", "does not exist", kubeconfig)

\* Variant: the stat error is replaced by a message, as in the not-exist branch.
accessErrorDropped(err, kubeconfig) ==
  Leaf("errorString", "kubernetes configuration file", kubeconfig)

\* multierror.Append(err, fmt.Errorf("kubernetes configuration file %q", kubeconfig))
accessError(err, kubeconfig) ==
  [type |-> "multierror", text |-> "", path |-> "",
   errors |-> <<err, Leaf("errorString", "kubernetes configuration file", kubeconfig)>>]

\* The result of ResolveConfig once the candidate has been stat'ed without error.
statOk(kubeconfig, path, logged) ==
  [path |-> path, err |-> NilErr, cause |-> NilErr,
   calls |-> IF logged
               THEN <<Call("Stat", kubeconfig), Call("log.Info", "using in-cluster configuration")>>
               ELSE <<Call("Stat", kubeconfig)>>]

\* The result of ResolveConfig once the stat of the candidate has failed with err.
statFailed(kubeconfig, err) ==
  [path |-> "",
   err |-> IF IsNotExist(err) THEN notExistError(kubeconfig) ELSE accessError(err, kubeconfig),
   cause |-> err,
   calls |-> <<Call("Stat", kubeconfig)>>]

\* Variant: a missing file is not an error, it selects in-cluster mode.
resolveStatLenient(kubeconfig) ==
  IF kubeconfig # ""
    THEN LET st == Stat(kubeconfig) IN
         IF st.err # NilErr
           THEN IF IsNotExist(st.err) THEN statOk(kubeconfig, "", TRUE)
                ELSE statFailed(kubeconfig, st.err)
           ELSE IF st.size = 0 THEN statOk(kubeconfig, "", TRUE)
                ELSE statOk(kubeconfig, kubeconfig, FALSE)
    ELSE [path |-> kubeconfig, err |-> NilErr, cause |-> NilErr, calls |-> <<>>]

\* Variant: the size of the file is not looked at.
resolveStatNoSize(kubeconfig) ==
  IF kubeconfig # ""
    THEN LET st == Stat(kubeconfig) IN
         IF st.err # NilErr THEN statFailed(kubeconfig, st.err)
         ELSE statOk(kubeconfig, kubeconfig, FALSE)
    ELSE [path |-> kubeconfig, err |-> NilErr, cause |-> NilErr, calls |-> <<>>]

\* Variant: the size test is inverted.
resolveStatInverted(kubeconfig) ==
  IF kubeconfig # ""
    THEN LET st == Stat(kubeconfig) IN
         IF st.err # NilErr THEN statFailed(kubeconfig, st.err)
         ELSE IF st.size # 0 THEN statOk(kubeconfig, "", TRUE)
         ELSE statOk(kubeconfig, kubeconfig, FALSE)
    ELSE [path |-> kubeconfig, err |-> NilErr, cause |-> NilErr, calls |-> <<>>]

\* if kubeconfig != "" { info, err := os.Stat(kubeconfig) ... } return kubeconfig, nil
resolveStat(kubeconfig) ==
  IF kubeconfig # ""
    THEN LET st == Stat(kubeconfig) IN
         IF st.err # NilErr THEN statFailed(kubeconfig, st.err)
         ELSE IF st.size = 0 THEN statOk(kubeconfig, "", TRUE)
         ELSE statOk(kubeconfig, kubeconfig, FALSE)
    ELSE [path |-> kubeconfig, err |-> NilErr, cause |-> NilErr, calls |-> <<>>]

\* --------------------------------------------------------- CreateInterface
\* Variant: an empty resolved path is loaded like any other path.
afterResolveAlwaysLoad(kube, err) ==
  IF err # NilErr THEN "done" ELSE "load"

\* Variant: the in-cluster branch is taken whatever path was resolved.
afterResolveAlwaysInCluster(kube, err) ==
  IF err # NilErr THEN "done" ELSE "incluster"

\* Where CreateInterface goes once ResolveConfig has returned (kube, err).
afterResolve(kube, err) ==
  IF err # NilErr THEN "done"
  ELSE IF kube = "" THEN "incluster"
  ELSE "load"

\* The in-cluster branch: rest.InClusterConfig(), then kubernetes.NewForConfig.
inClusterInterface(h) ==
  LET r1 == InClusterConfig(h) IN
  IF r1.err = NilErr
    THEN LET r2 == NewForConfig(r1.rest, h + 1) IN
         IF r2.err = NilErr
           THEN [rest |-> r1.rest, client |-> r2.client, err |-> NilErr, cause |-> NilErr,
                 calls |-> <<Call("InClusterConfig", ""), Call("NewForConfig", "")>>,
                 heap |-> h + 2]
           ELSE [rest |-> NilRest, client |-> NilClient, err |-> r2.err, cause |-> r2.err,
                 calls |-> <<Call("InClusterConfig", ""), Call("NewForConfig", "")>>,
                 heap |-> h + 1]
    ELSE [rest |-> NilRest, client |-> NilClient, err |-> r1.err, cause |-> r1.err,
          calls |-> <<Call("InClusterConfig", "")>>, heap |-> h]

\* clientcmd.NewDefaultClientConfig(*clusterConfig, &clientcmd.ConfigOverrides{})
\* and clientConfig.ClientConfig(), as collaborator calls.
deriveCalls == <<Call("NewDefaultClientConfig", "no overrides"), Call("ClientConfig", "")>>

\* Variant: the RestConfig is returned although the client could not be built.
createInterfacePartial(config, h) ==
  LET cc == ClientConfig(config, h) IN
  IF cc.err # NilErr
    THEN [rest |-> NilRest, client |-> NilClient, err |-> cc.err, cause |-> cc.err,
          calls |-> deriveCalls, heap |-> h]
    ELSE LET nc == NewForConfig(cc.rest, h + 1) IN
         [rest |-> cc.rest, client |-> nc.client, err |-> nc.err, cause |-> nc.err,
          calls |-> deriveCalls \o <<Call("NewForConfig", "")>>,
          heap |-> IF nc.err # NilErr THEN h + 1 ELSE h + 2]

\* createInterface(clusterConfig), on the content of *clusterConfig.
createInterface(config, h) ==
  LET cc == ClientConfig(config, h) IN
  IF cc.err # NilErr
    THEN [rest |-> NilRest, client |-> NilClient, err |-> cc.err, cause |-> cc.err,
          calls |-> deriveCalls, heap |-> h]
    ELSE LET nc == NewForConfig(cc.rest, h + 1) IN
         IF nc.err # NilErr
           THEN [rest |-> NilRest, client |-> NilClient, err |-> nc.err, cause |-> nc.err,
                 calls |-> deriveCalls \o <<Call("NewForConfig", "")>>, heap |-> h + 1]
           ELSE [rest |-> cc.rest, client |-> nc.client, err |-> NilErr, cause |-> NilErr,
                 calls |-> deriveCalls \o <<Call("NewForConfig", "")>>, heap |-> h + 2]

\* ------------------------------------------------------------------ actions
\* Call site p starts a call: its frame holds the fresh locals of the invocation.
\* The call runs alone as long as no other call is in progress beside it.
Begin(p, op, arg, pc) ==
  /\ p \in sites
  /\ frame[p].pc = "idle"
  /\ started < budget
  /\ started' = started + 1
  /\ frame' = [q \in Procs |->
                 IF q = p
                   THEN [Idle EXCEPT !.pc = pc, !.op = op, !.arg = arg,
                                     !.kubeconfig = IF op = "CreateInterfaceFromClusterConfig"
                                                      THEN "" ELSE arg,
                                     !.alone = \A r \in Procs \ {p} : ~InProgress(frame[r])]
                   ELSE IF InProgress(frame[q]) THEN [frame[q] EXCEPT !.alone = FALSE]
                   ELSE frame[q]]
  /\ UNCHANGED <<world, heap, sites, budget>>

\* func ResolveConfig(kubeconfig string) (string, error)
ResolveConfig(p, kubeconfig) == Begin(p, "ResolveConfig", kubeconfig, "getenv")

\* func CreateInterface(kubeconfig string) (*rest.Config, kubernetes.Interface, error)
CreateInterface(p, kubeconfig) == Begin(p, "CreateInterface", kubeconfig, "getenv")

\* func CreateInterfaceFromClusterConfig(clusterConfig *clientcmdapi.Config)
CreateInterfaceFromClusterConfig(p, c) ==
  Begin(p, "CreateInterfaceFromClusterConfig", c, "create")

\* ResolveConfig, lines 39-41.
ReadEnv(p) ==
  /\ frame[p].pc = "getenv"
  /\ LET r == resolveEnv(frame[p].kubeconfig) IN
     frame' = [frame EXCEPT ![p].kubeconfig = r.kubeconfig,
                            ![p].calls = @ \o r.calls,
                            ![p].pc = "home"]
  /\ UNCHANGED <<world, heap, started, sites, budget>>

\* ResolveConfig, lines 42-51.
ReadHome(p) ==
  /\ frame[p].pc = "home"
  /\ LET r == resolveHome(frame[p].kubeconfig) IN
     frame' = [frame EXCEPT ![p].kubeconfig = r.kubeconfig,
                            ![p].calls = @ \o r.calls,
                            ![p].pc = "stat"]
  /\ UNCHANGED <<world, heap, started, sites, budget>>

\* ResolveConfig, lines 52-69, and for CreateInterface the test of its result
\* (lines 74-79).
StatConfig(p) ==
  /\ frame[p].pc = "stat"
  /\ LET r == resolveStat(frame[p].kubeconfig) IN
     frame' = [frame EXCEPT ![p].path = r.path,
                            ![p].err = r.err,
                            ![p].cause = r.cause,
                            ![p].calls = @ \o r.calls,
                            ![p].pc = IF frame[p].op = "ResolveConfig" THEN "done"
                                      ELSE afterResolve(r.path, r.err)]
  /\ UNCHANGED <<world, heap, started, sites, budget>>

\* CreateInterface, lines 79-90.
InCluster(p) ==
  /\ frame[p].pc = "incluster"
  /\ LET r == inClusterInterface(heap) IN
     /\ frame' = [frame EXCEPT ![p].rest = r.rest,
                               ![p].client = r.client,
                               ![p].err = r.err,
                               ![p].cause = r.cause,
                               ![p].calls = @ \o r.calls,
                               ![p].pc = "done"]
     /\ heap' = r.heap
  /\ UNCHANGED <<world, started, sites, budget>>

\* CreateInterface, lines 91-94.
LoadConfig(p) ==
  /\ frame[p].pc = "load"
  /\ LET r == LoadFromFile(frame[p].path) IN
     frame' = [frame EXCEPT ![p].loaded = r.config,
                            ![p].err = r.err,
                            ![p].cause = r.err,
                            ![p].calls = @ \o <<Call("LoadFromFile", frame[p].path)>>,
                            ![p].pc = IF r.err # NilErr THEN "done" ELSE "create"]
  /\ UNCHANGED <<world, heap, started, sites, budget>>

\* Variant: the configuration is kept in a variable shared by all calls (here the
\* one call site 1 wrote last) instead of in the invocation's own locals.
clusterConfigShared(f) ==
  IF frame[1].op = "CreateInterfaceFromClusterConfig" THEN configs[frame[1].arg]
  ELSE frame[1].loaded

\* The configuration createInterface dereferences: the caller's, or the one
\* LoadFromFile returned.
clusterConfig(f) ==
  IF f.op = "CreateInterfaceFromClusterConfig" THEN configs[f.arg] ELSE f.loaded

\* createInterface, lines 105-116 (reached from lines 95 and 100).
Construct(p) ==
  /\ frame[p].pc = "create"
  /\ LET r == createInterface(clusterConfig(frame[p]), heap) IN
     /\ frame' = [frame EXCEPT ![p].rest = r.rest,
                               ![p].client = r.client,
                               ![p].err = r.err,
                               ![p].cause = r.cause,
                               ![p].calls = @ \o r.calls,
                               ![p].pc = "done"]
     /\ heap' = r.heap
  /\ UNCHANGED <<world, started, sites, budget>>

\* The caller has taken the results; the call site is free for its next call.
Return(p) ==
  /\ frame[p].pc = "done"
  /\ frame' = [frame EXCEPT ![p] = Idle]
  /\ UNCHANGED <<world, heap, started, sites, budget>>

\* ----------------------------------------------------------- specifications
Users == {[err |-> TRUE, HomeDir |-> ""], [err |-> FALSE, HomeDir |-> HomeU]}

InitLocal ==
  /\ configs = InitConfigs
  /\ frame = [p \in Procs |-> Idle]
  /\ heap = 0
  /\ started = 0

\* One call site, every environment and filesystem.
Init ==
  /\ env \in EnvValues
  /\ usr \in Users
  /\ fs \in [FilePaths -> FileKinds]
  /\ inCluster \in InClusterKinds
  /\ sites = {1}
  /\ budget = MaxCalls
  /\ InitLocal

\* Several call sites, a few environments: /a/cfg is a good file, /b/cfg an
\* empty one, and there is no file at the home-directory default.
InitConc ==
  /\ env \in {"", PathB}
  /\ usr \in Users
  /\ fs = [f \in FilePaths |-> IF f = PathA THEN GoodFile
                               ELSE IF f = PathB THEN EmptyFile ELSE NotExist]
  /\ inCluster = "ok"
  /\ sites = Procs
  /\ budget = MaxConcCalls
  /\ InitLocal

Next ==
  \E p \in Procs :
    \/ \E k \in ExplicitPaths : ResolveConfig(p, k)
    \/ \E k \in ExplicitPaths : CreateInterface(p, k)
    \/ \E c \in ConfigIds : CreateInterfaceFromClusterConfig(p, c)
    \/ ReadEnv(p)
    \/ ReadHome(p)
    \/ StatConfig(p)
    \/ InCluster(p)
    \/ LoadConfig(p)
    \/ Construct(p)
    \/ Return(p)

Spec == Init /\ [][Next]_vars

SpecConc == InitConc /\ [][Next]_vars

\* ------------------------------------------------------ vocabulary of claims
Done(f) == f.pc = "done"
FromPath(f) == f.op \in {"ResolveConfig", "CreateInterface"}
\* ResolveConfig has returned in this invocation.
Resolved(f) == FromPath(f) /\ f.pc \notin {"idle", "getenv", "home", "stat"}
Called(f, name) == \E i \in DOMAIN f.calls : f.calls[i][1] = name
Count(f, name) == Cardinality({i \in DOMAIN f.calls : f.calls[i][1] = name})
\* The names stat'ed by the invocation.
Stated(f) == {f.calls[i][2] : i \in {j \in DOMAIN f.calls : f.calls[j][1] = "Stat"}}
\* The last n collaborator calls of the invocation.
LastCalls(f, n) ==
  IF Len(f.calls) < n THEN <<>> ELSE SubSeq(f.calls, Len(f.calls) - n + 1, Len(f.calls))
IsFile(name) == name \in DOMAIN fs
NotFoundAt(e, name) ==
  e.type = "errorString" /\ e.text = "does not exist" /\ e.path = name /\ e.errors = <<>>
NoResult(f) == f.rest = NilRest /\ f.client = NilClient
DefaultPath == usr.HomeDir \o KubeDir
\* The error ResolveConfig returned in this invocation: CreateInterface goes on
\* to in-cluster identity or to the file loader only when it was nil.
ResolveErr(f) ==
  IF Called(f, "InClusterConfig") \/ Called(f, "LoadFromFile") THEN NilErr ELSE f.err

\* ------------------------------------------------------------------ claims
\* C1: first match wins.  With a non-empty explicit path, that path is the only
\* name ever stat'ed, the environment variable and the user's home are never
\* read, and the result is that path or the empty path.  With an empty explicit
\* path and a non-empty environment variable, the variable's value is the only
\* name stat'ed and the home directory is never looked up.  With both files
\* present and non-empty the explicit path is the result.
C1_Priority ==
  \A p \in Procs : LET f == frame[p] IN
    Resolved(f) =>
      /\ f.arg # "" =>
           /\ Stated(f) = {f.arg}
           /\ ~Called(f, "Getenv") /\ ~Called(f, "user.Current")
           /\ f.path \in {"", f.arg}
           /\ (fs[f.arg].errno = "" /\ fs[f.arg].size > 0) => (f.path = f.arg /\ ResolveErr(f) = NilErr)
      /\ (f.arg = "" /\ env # "") =>
           /\ Stated(f) = {env}
           /\ ~Called(f, "user.Current")
           /\ f.path \in {"", env}
           /\ (fs[env].errno = "" /\ fs[env].size > 0) => (f.path = env /\ ResolveErr(f) = NilErr)

C1_Witness ==
  \E p \in Procs : LET f == frame[p] IN
    /\ Done(f) /\ f.op = "ResolveConfig"
    /\ f.arg = PathA /\ env = PathB /\ fs[PathA] = GoodFile /\ fs[PathB] = GoodFile
    /\ f.path = PathA /\ f.err = NilErr

\* C2: a non-empty explicit path at which no file exists makes ResolveConfig
\* return the empty path and a does-not-exist error naming exactly that path;
\* the environment variable, the home directory, in-cluster identity and the
\* file loader are never consulted, and CreateInterface ends with that error.
C2_ExplicitNotFound ==
  \A p \in Procs : LET f == frame[p] IN
    (Resolved(f) /\ f.arg # "" /\ fs[f.arg] = NotExist) =>
      /\ f.path = ""
      /\ NotFoundAt(f.err, f.arg)
      /\ ~Called(f, "Getenv") /\ ~Called(f, "user.Current")
      /\ ~Called(f, "InClusterConfig") /\ ~Called(f, "LoadFromFile")
      /\ Done(f) /\ NoResult(f)

C2_Witness ==
  \E p \in Procs : LET f == frame[p] IN
    /\ Done(f) /\ f.op = "CreateInterface" /\ f.arg = PathA /\ fs[PathA] = NotExist
    /\ env = PathB /\ fs[PathB] = GoodFile /\ ~usr.err /\ inCluster = "ok"
    /\ NotFoundAt(f.err, PathA)

\* C3: ResolveConfig returns ("", nil) exactly when (a) the explicit path and
\* the environment variable are empty and the home directory cannot be
\* determined, or (b) the candidate, whatever its origin, is a file of size zero.
C3_InClusterSentinel ==
  \A p \in Procs : LET f == frame[p] IN
    Resolved(f) =>
      ((f.path = "" /\ ResolveErr(f) = NilErr)
         <=> \/ (f.arg = "" /\ env = "" /\ usr.err)
             \/ \E c \in DOMAIN fs :
                  /\ c = (IF f.arg # "" THEN f.arg ELSE IF env # "" THEN env ELSE DefaultPath)
                  /\ (f.arg # "" \/ env # "" \/ ~usr.err)
                  /\ fs[c].errno = "" /\ fs[c].size = 0)

C3_Witness ==
  \E p \in Procs : LET f == frame[p] IN
    /\ Done(f) /\ f.op = "ResolveConfig" /\ f.arg = "" /\ env = PathB
    /\ fs[PathB] = EmptyFile /\ ~usr.err /\ fs[DefaultPath] = GoodFile
    /\ f.path = "" /\ f.err = NilErr
    /\ Called(f, "log.Info")

\* C4: when the candidate is an existing, non-empty, well-formed configuration
\* file, ResolveConfig returns the candidate unchanged with a nil error and
\* CreateInterface returns a non-nil RestConfig and a non-nil client with a nil
\* error.
C4_GoodFile ==
  \A p \in Procs : LET f == frame[p] IN
    (Resolved(f) /\ IsFile(f.kubeconfig) /\ fs[f.kubeconfig] = GoodFile) =>
      /\ f.path = f.kubeconfig
      /\ f.arg # "" => f.path = f.arg
      /\ ResolveErr(f) = NilErr
      /\ Done(f) => (f.err = NilErr /\ (f.op = "CreateInterface" =>
                       (f.rest # NilRest /\ f.client # NilClient)))

C4_Witness ==
  \E p \in Procs : LET f == frame[p] IN
    /\ Done(f) /\ f.op = "CreateInterface" /\ f.arg = PathA /\ fs[PathA] = GoodFile
    /\ inCluster = "absent"
    /\ f.path = PathA /\ f.err = NilErr /\ f.rest # NilRest /\ f.client # NilClient

\* C5: CreateInterface and CreateInterfaceFromClusterConfig return either a
\* non-nil RestConfig, a non-nil client and a nil error, or nil, nil and a
\* non-nil error; before they return nothing has been handed out.
C5_NoPartialSuccess ==
  \A p \in Procs : LET f == frame[p] IN
    f.op \in {"CreateInterface", "CreateInterfaceFromClusterConfig"} =>
      /\ Done(f) => \/ (f.rest # NilRest /\ f.client # NilClient /\ f.err = NilErr)
                    \/ (f.rest = NilRest /\ f.client = NilClient /\ f.err # NilErr)
      /\ ~Done(f) => NoResult(f)

C5_Witness ==
  \E p \in Procs : LET f == frame[p] IN
    /\ Done(f) /\ f.op = "CreateInterface" /\ f.arg = PathA /\ fs[PathA] = BadServerFile
    /\ f.err.type = "ErrBadServer" /\ NoResult(f)
    /\ Called(f, "ClientConfig") /\ Called(f, "NewForConfig")

\* C6, as claimed: every error returned carries the error its failing
\* collaborator produced, and for a failed stat also the offending path.
C6_CauseAttached ==
  \A p \in Procs : LET f == frame[p] IN
    (Done(f) /\ f.err # NilErr) =>
      /\ f.cause # NilErr
      /\ Contains(f.err, f.cause)
      /\ f.cause.type = "PathError" => Mentions(f.err, f.kubeconfig)

\* C6, amended: every error returned carries the error its failing collaborator
\* produced, except when the stat reports that the file does not exist: then
\* the caller gets a newly made error that names the offending path and holds
\* nothing of the stat error.  Every stat failure names the offending path.
C6_CauseAttachedUnlessNotExist ==
  \A p \in Procs : LET f == frame[p] IN
    (Done(f) /\ f.err # NilErr) =>
      /\ f.cause # NilErr
      /\ IF IsNotExist(f.cause)
           THEN ~Contains(f.err, f.cause) /\ NotFoundAt(f.err, f.kubeconfig)
           ELSE Contains(f.err, f.cause)
      /\ f.cause.type = "PathError" => Mentions(f.err, f.kubeconfig)

C6_Witness ==
  \E p \in Procs : LET f == frame[p] IN
    /\ Done(f) /\ f.op = "CreateInterface" /\ f.arg = PathA /\ fs[PathA] = NoAccess
    /\ f.err.type = "multierror"
    /\ f.cause = Leaf("PathError", "EACCES", PathA)
    /\ Contains(f.err, f.cause) /\ Mentions(f.err, PathA)

\* C7: once ResolveConfig has yielded the empty path without error,
\* CreateInterface consults in-cluster identity and nothing else: no file is
\* loaded and no ClientConfig is derived, InClusterConfig is called at most
\* once, and its failure is the error of the call, returned with no result.
\* Once ResolveConfig has yielded a non-empty path, InClusterConfig is never
\* called.
C7_InClusterOnly ==
  \A p \in Procs : LET f == frame[p] IN
    (Resolved(f) /\ f.op = "CreateInterface" /\ ResolveErr(f) = NilErr) =>
      IF f.path = ""
        THEN /\ ~Called(f, "LoadFromFile")
             /\ ~Called(f, "NewDefaultClientConfig") /\ ~Called(f, "ClientConfig")
             /\ f.pc \in {"incluster", "done"}
             /\ Count(f, "InClusterConfig") = (IF Done(f) THEN 1 ELSE 0)
             /\ (Done(f) /\ inCluster = "absent") =>
                  /\ f.err = Leaf("ErrNotInCluster", "", "")
                  /\ NoResult(f)
                  /\ LastCalls(f, 1) = <<Call("InClusterConfig", "")>>
        ELSE /\ ~Called(f, "InClusterConfig")
             /\ f.pc \in {"load", "create", "done"}

C7_Witness ==
  \E p \in Procs : LET f == frame[p] IN
    /\ Done(f) /\ f.op = "CreateInterface" /\ f.arg = "" /\ env = "" /\ usr.err
    /\ inCluster = "absent" /\ fs[PathA] = GoodFile /\ fs[HomeU \o KubeDir] = GoodFile
    /\ f.err.type = "ErrNotInCluster"

\* C8, as claimed: every successful CreateInterface call ends with the shared
\* construction routine: ClientConfig derived with empty overrides, RestConfig
\* derived, client constructed.
C8_AlwaysSharedRoutine ==
  \A p \in Procs : LET f == frame[p] IN
    (Done(f) /\ f.op = "CreateInterface" /\ f.err = NilErr) =>
      LastCalls(f, 3) = <<Call("NewDefaultClientConfig", "no overrides"),
                          Call("ClientConfig", ""), Call("NewForConfig", "")>>

\* C8, amended: a successful CreateInterface call in file mode loads the file
\* and ends with the shared construction routine (ClientConfig derived with
\* empty overrides, RestConfig derived, client constructed), exactly as a
\* successful CreateInterfaceFromClusterConfig call does; a successful call in
\* in-cluster mode does not go through that routine: it builds the client
\* directly from the in-cluster RestConfig and derives no ClientConfig.
C8_SharedRoutineInFileMode ==
  \A p \in Procs : LET f == frame[p] IN
    (Done(f) /\ f.err = NilErr) =>
      /\ (f.op = "CreateInterface" /\ f.path # "") =>
           LastCalls(f, 4) = <<Call("LoadFromFile", f.path),
                               Call("NewDefaultClientConfig", "no overrides"),
                               Call("ClientConfig", ""), Call("NewForConfig", "")>>
      /\ f.op = "CreateInterfaceFromClusterConfig" =>
           f.calls = <<Call("NewDefaultClientConfig", "no overrides"),
                       Call("ClientConfig", ""), Call("NewForConfig", "")>>
      /\ (f.op = "CreateInterface" /\ f.path = "") =>
           /\ LastCalls(f, 2) = <<Call("InClusterConfig", ""), Call("NewForConfig", "")>>
           /\ ~Called(f, "NewDefaultClientConfig") /\ ~Called(f, "ClientConfig")

C8_Witness ==
  \E p \in Procs : LET f == frame[p] IN
    /\ Done(f) /\ f.op = "CreateInterface" /\ f.err = NilErr
    /\ f.path = PathA /\ f.client # NilClient
    /\ Called(f, "LoadFromFile") /\ Called(f, "ClientConfig")

\* The results two calls share when they return the same: everything but the
\* addresses of the objects built for them.
Outcome(f) ==
  [path |-> f.path, err |-> f.err, server |-> f.rest.server,
   rest |-> f.rest # NilRest, client |-> f.client # NilClient, calls |-> f.calls]

C9_Calls ==
  \A p \in Procs : LET f == frame[p] IN
    \* every call resolves for itself: it reads the environment and stats its candidate
    /\ (Resolved(f) /\ f.arg = "") => Called(f, "Getenv")
    /\ (Resolved(f) /\ f.kubeconfig # "") => f.kubeconfig \in Stated(f)
    /\ (Done(f) /\ f.op = "CreateInterface" /\ f.client # NilClient /\ f.path # "") =>
         Called(f, "LoadFromFile")
    /\ \A q \in Procs \ {p} : LET g == frame[q] IN
         (Done(f) /\ Done(g)) =>
           \* the same call returns the same, alone or interleaved with others
           /\ (f.op = g.op /\ f.arg = g.arg) => Outcome(f) = Outcome(g)
           \* and what it builds is its own
           /\ (f.client # NilClient /\ g.client # NilClient) =>
                Cardinality({f.client, g.client, f.rest.addr, g.rest.addr}) = 4

\* C9: calls are independent under any interleaving.  Two completed calls of
\* the same operation on the same argument have the same outcome whether they
\* ran alone or interleaved with other calls; every call reads the environment
\* and stats and loads its candidate itself; no two calls hand out the same
\* client or the same RestConfig; and no step of any call changes the
\* environment, the user, the filesystem, the in-cluster identity or a
\* caller-held cluster configuration.
C9_Independent == [](C9_Calls) /\ [][world' = world]_vars

C9_Witness ==
  /\ \A p \in Procs :
       /\ Done(frame[p]) /\ frame[p].op = "CreateInterfaceFromClusterConfig"
       /\ frame[p].arg = "cfgGood" /\ frame[p].client # NilClient
  /\ frame[1].alone /\ ~frame[2].alone /\ ~frame[3].alone
  /\ Cardinality({frame[p].client : p \in Procs}) = 3

\* C10: with an empty explicit path and an unset or empty environment variable,
\* the candidate is the home-directory default whenever the home directory is
\* resolvable, whatever the filesystem holds at the default path: the guarding
\* stat is made on the empty name.  A missing default file then makes
\* ResolveConfig fail with a does-not-exist error naming the default path.  The
\* candidate stays empty, and the result is the in-cluster sentinel, only when
\* the home directory cannot be determined.
C10_HomeDefaultAdopted ==
  \A p \in Procs : LET f == frame[p] IN
    (Resolved(f) /\ f.arg = "" /\ env = "") =>
      IF ~usr.err
        THEN /\ f.kubeconfig = DefaultPath
             /\ Stated(f) = {"", DefaultPath}
             /\ fs[DefaultPath] = NotExist =>
                  (f.path = "" /\ NotFoundAt(f.err, DefaultPath) /\ Done(f))
        ELSE /\ f.kubeconfig = ""
             /\ Stated(f) = {}
             /\ f.path = "" /\ ResolveErr(f) = NilErr

C10_Witness ==
  \E p \in Procs : LET f == frame[p] IN
    /\ Done(f) /\ f.op = "ResolveConfig" /\ f.arg = "" /\ env = "" /\ ~usr.err
    /\ fs[DefaultPath] = NotExist
    /\ f.kubeconfig = DefaultPath /\ NotFoundAt(f.err, DefaultPath)

====
